---- MODULE Spec2Model ----
(***************************************************************************)
(* The atomic Universe container (exatomic/universe.py): base tables       *)
(* (Atom, Frame), lazily computed and cached derived tables, the field     *)
(* store, and the operations on them.                                      *)
(*                                                                         *)
(* A universe is a record of attributes.  An attribute is a record         *)
(*   [st |-> "unset" | "none" | "set", rows |-> the table's rows]          *)
(* "unset": the Python attribute does not exist (hasattr is False),        *)
(* "none" : the attribute exists and is None,                              *)
(* "set"  : the attribute holds a table.                                   *)
(* A method is an operator from a universe to a result record              *)
(*   [u |-> universe afterwards, exc |-> exception raised or "none",       *)
(*    calls |-> the methods entered, in order, ret |-> value returned]     *)
(* and the statements of a method body are chained with Then.              *)
(***************************************************************************)
EXTENDS Integers, FiniteSets, Sequences, TLC

VARIABLES u,     \* the universe the operations act on
          v,     \* the universe returned by the last slicing, if any
          last,  \* the last call: [op, args, exc, calls, ret]
          conv,  \* how the base class leaves a cache attribute that was
                 \* never assigned: Unset (no attribute) or None
          assigned, \* how many times the caller has reassigned a base table
          xyz,   \* an XYZ text being read: [stage, sizes, raw, idx, parsed]
          nmr,   \* an ADF NMR output being parsed: [lines, atom, nmr_shielding, exc]
          mo     \* a call of add_cubic_field_from_mo: [stage, orbitals, vector, exc, rows]

vars == <<u, v, last, conv, assigned, xyz, nmr, mo>>

\* Bounds of the model
MaxAtoms == 2

MaxAssign == 1

MaxAppend == 2

MaxStore == 3

MaxLabel == 1

MaxXyzFrames == 3

MaxXyzAtoms == 3

MaxLines == 5

MaxOrbital == 3

MaxVector == 2

\* 3x3x3 supercell: images per atom
NImages == 27

\* index of the translation (0,0,0) in the lexicographic order of {-1,0,1}^3
IdentityImage == (NImages - 1) \div 2

NoExc == "none"

Unset == [st |-> "unset", rows |-> {}]

None == [st |-> "none", rows |-> {}]

Table(rows) == [st |-> "set", rows |-> rows]

\* ------------------------------------------------------------------------
\* Results of calls

Ok(w, ret) == [u |-> w, exc |-> NoExc, calls |-> <<>>, ret |-> ret]

Raise(w, e) == [u |-> w, exc |-> e, calls |-> <<>>, ret |-> None]

Failed(r) == r.exc # NoExc

\* statement sequencing: r ran first; when it raised, the exception
\* propagates, otherwise the rest F runs from r's universe with r's value
Then(r, F(_)) ==
    IF Failed(r) THEN r ELSE [F(r) EXCEPT !.calls = r.calls \o @]

\* the body r of method `name` was entered
Called(name, r) == [r EXCEPT !.calls = <<name>> \o @]

\* hasattr(self, x)
Is(w, x) == w[x].st # "unset"

\* ------------------------------------------------------------------------
\* Tables supplied from outside

\* what the positions of a pair of atoms decide in the two body engine: the
\* image of the second atom that is nearest to the first, and whether the
\* two are within the bonding cutoff
Geometry ==
    {[near |-> IdentityImage, bond |-> FALSE],
     [near |-> NImages - 1, bond |-> TRUE]}

\* Atom table of n atoms, perframe atoms in every frame; atoms with an odd id
\* lie outside the primary cell (cell is the lattice offset of the position);
\* near and bond give the geometry of an atom relative to the atoms of its
\* frame with a lower id; bond_count is the optional column: the set that
\* holds the value, empty when the row has none
AtomTable(n, perframe, g) ==
    {[id |-> i, frame |-> i \div perframe, cell |-> i % 2,
      near |-> IF i % perframe = 0 THEN IdentityImage ELSE g.near,
      bond |-> IF i % perframe = 0 THEN FALSE ELSE g.bond,
      bond_count |-> {}] : i \in 0..(n - 1)}

AtomInputs == {AtomTable(n, pf, g) : n \in 1..MaxAtoms, pf \in 1..2, g \in Geometry}

\* exatomic.frame.minimal_frame
minimal_frame(arows) ==
    {[frame |-> f,
      atom_count |-> Cardinality({r \in arows : r.frame = f}),
      periodic |-> FALSE,
      cell |-> "none"] : f \in {r.frame : r \in arows}}

\* A Frame table for the atoms: periodic or not, with or without cell vectors
FrameTable(arows, periodic, cell) ==
    {[fr EXCEPT !.periodic = periodic, !.cell = cell] : fr \in minimal_frame(arows)}

\* Frame.is_periodic
FrameIsPeriodic(frows) == \E fr \in frows : fr.periodic

\* a periodic frame without cell vectors
BadCell(frows) == \E fr \in frows : fr.periodic /\ fr.cell = "none"

\* ------------------------------------------------------------------------
\* Typed attributes (class Meta): frame, atom, two_free, two_periodic.
\* Reading one that is not stored calls compute_<name> when the universe has
\* such a method and raises AttributeError when the value is still missing;
\* assigning one stores the value and touches nothing else.

\* self.atom (there is no compute_atom)
GetAtom(w) ==
    IF w._atom.st = "set" THEN Ok(w, w._atom) ELSE Raise(w, "AttributeError")

\* self.atom = rows
SetAtomAttr(w, rows) == [w EXCEPT !._atom = Table(rows)]

\* self.frame = rows
SetFrameAttr(w, rows) == [w EXCEPT !._frame = Table(rows)]

\* a compute_frame that builds the minimal frame and does not assign it
compute_frame_unassigned(w) ==
    Called("compute_frame", Then(GetAtom(w), LAMBDA a : Ok(a.u, None)))

\* def compute_frame(self): self.frame = minimal_frame(self.atom)
compute_frame(w) ==
    Called("compute_frame",
        Then(GetAtom(w), LAMBDA a :
             Ok(SetFrameAttr(a.u, minimal_frame(a.ret.rows)), None)))

\* self.frame
GetFrame(w) ==
    IF w._frame.st = "set" THEN Ok(w, w._frame)
    ELSE Then(compute_frame(w), LAMBDA c : Ok(c.u, c.u._frame))

\* Universe.is_periodic: return self.frame.is_periodic
is_periodic(w) ==
    Then(GetFrame(w), LAMBDA f : Ok(f.u, FrameIsPeriodic(f.ret.rows)))

\* ------------------------------------------------------------------------
\* Unit atom: the sparse overlay of positions folded into the primary cell

\* the folded rows: atoms of periodic frames that lie outside the primary cell
Fold(arows, frows) ==
    {[id |-> r.id, cell |-> 0] :
        r \in {a \in arows : a.cell # 0 /\
                 \E fr \in frows : fr.frame = a.frame /\ fr.periodic}}

\* exatomic.atom.compute_unit_atom(universe)
cua(w) ==
    Then(GetAtom(w), LAMBDA a :
    Then(GetFrame(a.u), LAMBDA f :
         IF BadCell(f.ret.rows) THEN Raise(f.u, "ConfigurationError")
         ELSE Ok(f.u, Table(Fold(a.ret.rows, f.ret.rows)))))

\* def compute_unit_atom(self): self._unit_atom = _cua(self)
compute_unit_atom(w) ==
    Called("compute_unit_atom",
        Then(cua(w), LAMBDA r : Ok([r.u EXCEPT !._unit_atom = r.ret], None)))

\* atom = self.atom.copy(); atom.update(overlay): a row of the overlay
\* overrides the position of the atom row with its id; an absent overlay
\* (None) updates nothing
Update(arows, orows) ==
    {IF \E o \in orows : o.id = a.id
     THEN [a EXCEPT !.cell = (CHOOSE o \in orows : o.id = a.id).cell]
     ELSE a : a \in arows}

\* a unit_atom that updates the stored Atom table instead of a copy
unit_atom_inplace(w) ==
    Then(IF ~Is(w, "_unit_atom") THEN compute_unit_atom(w) ELSE Ok(w, None), LAMBDA c :
    Then(GetAtom(c.u), LAMBDA a :
         Ok(SetAtomAttr(a.u, Update(a.ret.rows, a.u._unit_atom.rows)),
            Table(Update(a.ret.rows, a.u._unit_atom.rows)))))

\* property unit_atom
unit_atom(w) ==
    Then(IF ~Is(w, "_unit_atom") THEN compute_unit_atom(w) ELSE Ok(w, None), LAMBDA c :
    Then(GetAtom(c.u), LAMBDA a :
         Ok(a.u, Table(Update(a.ret.rows, a.u._unit_atom.rows)))))

\* ------------------------------------------------------------------------
\* Projected atom: the images of the unit atoms in the 3x3x3 supercell

\* one row per atom of a periodic frame and translation, atom-major
Project(arows, frows) ==
    {[id |-> a.id * NImages + k, atom |-> a.id, image |-> k, bond_count |-> {}] :
        a \in {b \in arows : \E fr \in frows : fr.frame = b.frame /\ fr.periodic},
        k \in 0..(NImages - 1)}

\* exatomic.atom.compute_projected_atom(universe)
cpa(w) ==
    Then(unit_atom(w), LAMBDA a :
    Then(GetFrame(a.u), LAMBDA f :
         IF BadCell(f.ret.rows) THEN Raise(f.u, "ConfigurationError")
         ELSE Ok(f.u, Table(Project(a.ret.rows, f.ret.rows)))))

\* a compute_projected_atom that stores the supercell under _unit_atom
compute_projected_atom_misplaced(w) ==
    Called("compute_projected_atom",
        Then(cpa(w), LAMBDA r : Ok([r.u EXCEPT !._unit_atom = r.ret], None)))

\* def compute_projected_atom(self): self._projected_atom = _cpa(self)
compute_projected_atom(w) ==
    Called("compute_projected_atom",
        Then(cpa(w), LAMBDA r : Ok([r.u EXCEPT !._projected_atom = r.ret], None)))

\* property projected_atom
projected_atom(w) ==
    IF ~Is(w, "_projected_atom") THEN Raise(w, "AttributeError")
    ELSE Then(IF w._projected_atom.st = "none"
              THEN compute_projected_atom(w) ELSE Ok(w, None), LAMBDA c :
              Ok(c.u, c.u._projected_atom))

\* the ids in prjd_atom0 and prjd_atom1
Referenced(trows) ==
    {t.prjd_atom0 : t \in trows} \cup {t.prjd_atom1 : t \in trows}

\* self._projected_atom[self._projected_atom.index.isin(pa)]
Truncated(prows, pa) == {p \in prows : p.id \in pa}

\* a truncation that keeps the images named in prjd_atom0 only
truncate_projected_atom_first(w) ==
    Called("truncate_projected_atom",
        IF w._two_periodic.st # "set" \/ w._projected_atom.st # "set"
        THEN Raise(w, "AttributeError")
        ELSE Ok([w EXCEPT !._projected_atom =
                    Table(Truncated(w._projected_atom.rows,
                                    {t.prjd_atom0 : t \in w._two_periodic.rows}))], None))

\* def truncate_projected_atom(self): reads self.periodic_two, an attribute
\* that no statement of the class assigns (Meta declares two_periodic)
truncate_projected_atom(w) ==
    Called("truncate_projected_atom",
        IF ~Is(w, "periodic_two") THEN Raise(w, "AttributeError")
        ELSE IF w.periodic_two.st = "none" THEN Raise(w, "TypeError")
        ELSE IF ~Is(w, "_projected_atom") THEN Raise(w, "AttributeError")
        ELSE IF w._projected_atom.st = "none" THEN Raise(w, "TypeError")
        ELSE Ok([w EXCEPT !._projected_atom =
                    Table(Truncated(w._projected_atom.rows,
                                    Referenced(w.periodic_two.rows)))], None))

\* ------------------------------------------------------------------------
\* Two body tables

\* free pairs: one row per unordered pair of atoms of a frame
FreePairs(arows) ==
    {[atom0 |-> ab[1].id, atom1 |-> ab[2].id, bond |-> ab[2].bond] :
        ab \in {xy \in arows \X arows :
                   xy[2].id > xy[1].id /\ xy[2].frame = xy[1].frame}}

\* the image of atom a the pair search takes: the wanted one when the table
\* holds it, else the lowest image of a that it holds
Nearest(prows, a, wanted) ==
    LET held == {p \in prows : p.atom = a} IN
    IF \E p \in held : p.image = wanted
    THEN CHOOSE p \in held : p.image = wanted
    ELSE CHOOSE p \in held : \A q \in held : p.image <= q.image

\* periodic pairs: per unordered pair of source atoms of a frame, the image
\* pair of minimum distance among the images the table holds
PeriodicPairs(arows, prows) ==
    {[prjd_atom0 |-> Nearest(prows, ab[1].id, IdentityImage).id,
      prjd_atom1 |-> Nearest(prows, ab[2].id, ab[2].near).id,
      bond |-> ab[2].bond] :
        ab \in {xy \in arows \X arows :
                   /\ xy[2].id > xy[1].id /\ xy[2].frame = xy[1].frame
                   /\ \E p \in prows : p.atom = xy[1].id
                   /\ \E p \in prows : p.atom = xy[2].id}}

\* exatomic.two.compute_two_body(universe)
ctb(w) ==
    Then(is_periodic(w), LAMBDA p :
    Then(GetAtom(p.u), LAMBDA a :
         IF p.ret
         THEN Then(projected_atom(a.u), LAMBDA pa :
                   Ok(pa.u, Table(PeriodicPairs(a.ret.rows, pa.ret.rows))))
         ELSE Ok(a.u, Table(FreePairs(a.ret.rows)))))

\* a compute_two_body that truncates before it stores the new pairs
compute_two_body_early(w, truncate_projected) ==
    Called("compute_two_body",
        Then(is_periodic(w), LAMBDA p :
        Then(ctb(p.u), LAMBDA t :
             IF p.ret
             THEN Then(IF truncate_projected THEN truncate_projected_atom(t.u)
                       ELSE Ok(t.u, None), LAMBDA s :
                       Ok([s.u EXCEPT !._two_periodic = t.ret], None))
             ELSE Ok([t.u EXCEPT !._two_free = t.ret], None))))

\* a compute_two_body that stores every result as the free table
compute_two_body_free(w, truncate_projected) ==
    Called("compute_two_body",
        Then(is_periodic(w), LAMBDA p :
        Then(ctb(p.u), LAMBDA t :
             Then(Ok([t.u EXCEPT !._two_free = t.ret], None), LAMBDA s :
                  IF p.ret /\ truncate_projected THEN truncate_projected_atom(s.u)
                  ELSE s))))

\* def compute_two_body(self, *args, truncate_projected=True, **kwargs)
compute_two_body(w, truncate_projected) ==
    Called("compute_two_body",
        Then(is_periodic(w), LAMBDA p :
        Then(ctb(p.u), LAMBDA t :
             IF p.ret
             THEN Then(Ok([t.u EXCEPT !._two_periodic = t.ret], None), LAMBDA s :
                       IF truncate_projected THEN truncate_projected_atom(s.u) ELSE s)
             ELSE Ok([t.u EXCEPT !._two_free = t.ret], None))))

\* def compute_two_free(self, *args, **kwargs)
compute_two_free(w) == Called("compute_two_free", compute_two_body(w, TRUE))

\* def compute_two_periodic(self, *args, **kwargs)
compute_two_periodic(w) == Called("compute_two_periodic", compute_two_body(w, TRUE))

\* self.two_free
GetTwoFree(w) ==
    Then(IF w._two_free.st = "set" THEN Ok(w, None) ELSE compute_two_free(w), LAMBDA c :
         IF c.u._two_free.st = "set" THEN Ok(c.u, c.u._two_free)
         ELSE Raise(c.u, "AttributeError"))

\* self.two_periodic
GetTwoPeriodic(w) ==
    Then(IF w._two_periodic.st = "set" THEN Ok(w, None) ELSE compute_two_periodic(w), LAMBDA c :
         IF c.u._two_periodic.st = "set" THEN Ok(c.u, c.u._two_periodic)
         ELSE Raise(c.u, "AttributeError"))

\* property two
two(w) ==
    Then(is_periodic(w), LAMBDA p :
         IF p.ret THEN GetTwoPeriodic(p.u) ELSE GetTwoFree(p.u))

\* ------------------------------------------------------------------------
\* Visual atom

\* the unwrapped positions: an override row for every atom of a periodic frame
Unwrap(arows, frows) ==
    {[id |-> a.id, cell |-> 0] :
        a \in {b \in arows : \E fr \in frows : fr.frame = b.frame /\ fr.periodic}}

\* exatomic.atom.compute_visual_atom(universe)
cva(w) ==
    Then(unit_atom(w), LAMBDA a :
    Then(GetFrame(a.u), LAMBDA f :
         IF BadCell(f.ret.rows) THEN Raise(f.u, "ConfigurationError")
         ELSE Ok(f.u, Table(Unwrap(a.ret.rows, f.ret.rows)))))

\* def compute_visual_atom(self): self._visual_atom = _cva(self)
compute_visual_atom(w) ==
    Called("compute_visual_atom",
        Then(cva(w), LAMBDA r : Ok([r.u EXCEPT !._visual_atom = r.ret], None)))

\* a visual_atom that computes and merges on every universe
visual_atom_eager(w) ==
    Then(is_periodic(w), LAMBDA p :
         IF ~Is(p.u, "_visual_atom") THEN Raise(p.u, "AttributeError")
         ELSE Then(IF p.u._visual_atom.st = "none"
                   THEN compute_visual_atom(p.u) ELSE Ok(p.u, None), LAMBDA c :
              Then(GetAtom(c.u), LAMBDA a :
                   Ok(a.u, Table(Update(a.ret.rows, a.u._visual_atom.rows))))))

\* property visual_atom
visual_atom(w) ==
    Then(is_periodic(w), LAMBDA p :
         IF p.ret
         THEN IF ~Is(p.u, "_visual_atom") THEN Raise(p.u, "AttributeError")
              ELSE Then(IF p.u._visual_atom.st = "none"
                        THEN compute_visual_atom(p.u) ELSE Ok(p.u, None), LAMBDA c :
                   Then(GetAtom(c.u), LAMBDA a :
                        Ok(a.u, Table(Update(a.ret.rows, a.u._visual_atom.rows)))))
         ELSE GetAtom(p.u))

\* ------------------------------------------------------------------------
\* Molecules: the connected components of the bond graph

\* the source atom of a projected id, -1 when the table has no such row
Source(prows, i) ==
    IF \E p \in prows : p.id = i THEN (CHOOSE p \in prows : p.id = i).atom ELSE -1

\* the bonded pairs of source atoms
FreeEdges(trows) == {{t.atom0, t.atom1} : t \in {x \in trows : x.bond}}

PeriodicEdges(trows, prows) ==
    {{Source(prows, t.prjd_atom0), Source(prows, t.prjd_atom1)} :
        t \in {x \in trows : x.bond /\ Source(prows, x.prjd_atom0) # -1
                                    /\ Source(prows, x.prjd_atom1) # -1}}

\* the atoms connected to those of S by the edges E
RECURSIVE Grow(_, _)
Grow(S, E) ==
    LET T == S \cup UNION {ed \in E : ed \cap S # {}} IN
    IF T = S THEN S ELSE Grow(T, E)

\* one row per component and frame; com: the centre of mass columns;
\* classification: the optional label, "" when the row has none
Components(arows, E) ==
    {[frame |-> a.frame,
      atoms |-> Grow({a.id}, E) \cap {b.id : b \in {c \in arows : c.frame = a.frame}},
      com |-> FALSE,
      classification |-> ""] : a \in arows}

\* exatomic.molecule.compute_molecule(universe)
cm(w) ==
    Then(two(w), LAMBDA t :
    Then(GetAtom(t.u), LAMBDA a :
    Then(is_periodic(a.u), LAMBDA p :
         IF p.ret
         THEN Then(projected_atom(p.u), LAMBDA pa :
                   Ok(pa.u, Table(Components(a.ret.rows,
                                    PeriodicEdges(t.ret.rows, pa.ret.rows)))))
         ELSE Ok(p.u, Table(Components(a.ret.rows, FreeEdges(t.ret.rows)))))))

\* exatomic.molecule.compute_molecule_com(universe): one row per molecule
cmcom(w) ==
    Then(visual_atom(w), LAMBDA a :
         IF a.u._molecule.st # "set" THEN Raise(a.u, "AttributeError")
         ELSE Ok(a.u, Table({[m EXCEPT !.com = TRUE] : m \in a.u._molecule.rows})))

\* pd.concat((molecule, com), axis=1): the centre of mass columns are joined
\* to the molecule rows with the same index
Concat(mrows, crows) ==
    {IF \E c \in crows : c.frame = m.frame /\ c.atoms = m.atoms
     THEN [m EXCEPT !.com = TRUE] ELSE m : m \in mrows}

\* a compute_molecule that does not recompute the visual atoms
compute_molecule_unrefreshed(w, com) ==
    Called("compute_molecule",
        Then(cm(w), LAMBDA m :
        Then(Ok([m.u EXCEPT !._molecule = m.ret], None), LAMBDA s :
             IF ~com THEN s
             ELSE Then(cmcom(s.u), LAMBDA c :
                       Ok([c.u EXCEPT !._molecule =
                              Table(Concat(c.u._molecule.rows, c.ret.rows))], None)))))

\* a compute_molecule that stores the table only on the com branch
compute_molecule_dropped(w, com) ==
    Called("compute_molecule",
        Then(cm(w), LAMBDA m :
             IF ~com THEN Ok(m.u, None)
             ELSE Then(Ok([m.u EXCEPT !._molecule = m.ret], None), LAMBDA s :
                  Then(compute_visual_atom(s.u), LAMBDA va :
                  Then(cmcom(va.u), LAMBDA c :
                       Ok([c.u EXCEPT !._molecule =
                              Table(Concat(c.u._molecule.rows, c.ret.rows))], None))))))

\* def compute_molecule(self, com=False)
compute_molecule(w, com) ==
    Called("compute_molecule",
        Then(cm(w), LAMBDA m :
        Then(Ok([m.u EXCEPT !._molecule = m.ret], None), LAMBDA s :
             IF ~com THEN s
             ELSE Then(compute_visual_atom(s.u), LAMBDA va :
                  Then(cmcom(va.u), LAMBDA c :
                       Ok([c.u EXCEPT !._molecule =
                              Table(Concat(c.u._molecule.rows, c.ret.rows))], None))))))

\* property molecule
molecule(w) ==
    Then(IF ~Is(w, "_molecule") THEN compute_molecule(w, FALSE) ELSE Ok(w, None), LAMBDA c :
         Ok(c.u, c.u._molecule))

\* Molecule.classify(*classifiers): every molecule takes the label of the
\* first rule that matches its composition (here its number of atoms, exactly
\* or at least), and keeps what it had when no rule matches
Matches(m, rule) ==
    IF rule.exact THEN Cardinality(m.atoms) = rule.size
    ELSE Cardinality(m.atoms) >= rule.size

classify(mrows, rules) ==
    {IF \E i \in DOMAIN rules : Matches(m, rules[i])
     THEN [m EXCEPT !.classification =
              rules[CHOOSE i \in DOMAIN rules :
                       /\ Matches(m, rules[i])
                       /\ \A j \in 1..(i - 1) : ~Matches(m, rules[j])].label]
     ELSE m : m \in mrows}

\* def classify_molecules(self, *args, **kwargs):
\*     self.molecule.classify(*args, **kwargs)
classify_molecules(w, rules) ==
    Then(molecule(w), LAMBDA m :
         IF m.ret.st # "set" THEN Raise(m.u, "AttributeError")
         ELSE Ok([m.u EXCEPT !._molecule = Table(classify(m.ret.rows, rules))], None))

\* ------------------------------------------------------------------------
\* Bond counts: a count series is a set of [id, n], one per counted row

\* the bonded rows of a pair table
Bonded(trows) == {t \in trows : t.bond}

\* exatomic.two.compute_bond_count(universe): per atom, the bonded pairs
\* that reference it, images counted on their source atom
FreeCounts(trows) ==
    {[id |-> a,
      n |-> Cardinality({t \in Bonded(trows) : a \in {t.atom0, t.atom1}})] :
        a \in UNION {{t.atom0, t.atom1} : t \in Bonded(trows)}}

PeriodicCounts(trows, prows) ==
    {[id |-> a,
      n |-> Cardinality({t \in Bonded(trows) :
                            a \in {Source(prows, t.prjd_atom0),
                                   Source(prows, t.prjd_atom1)}})] :
        a \in UNION {{Source(prows, t.prjd_atom0), Source(prows, t.prjd_atom1)} :
                        t \in Bonded(trows)} \ {-1}}

cbc(w) ==
    Then(two(w), LAMBDA t :
    Then(is_periodic(t.u), LAMBDA p :
         IF p.ret
         THEN Then(projected_atom(p.u), LAMBDA pa :
                   Ok(pa.u, PeriodicCounts(t.ret.rows, pa.ret.rows)))
         ELSE Ok(p.u, FreeCounts(t.ret.rows))))

\* exatomic.two.compute_projected_bond_count(universe): per projected row,
\* the bonded pairs of PeriodicTwo that reference it
ProjectedCounts(trows) ==
    {[id |-> i,
      n |-> Cardinality({t \in Bonded(trows) : i \in {t.prjd_atom0, t.prjd_atom1}})] :
        i \in Referenced(Bonded(trows))}

cpbc(w) ==
    Then(GetTwoPeriodic(w), LAMBDA t : Ok(t.u, ProjectedCounts(t.ret.rows)))

\* table['bond_count'] = series: rows the series does not index get no value
SetColumn(rows, series) ==
    {[r EXCEPT !.bond_count =
         IF \E c \in series : c.id = r.id
         THEN {(CHOOSE c \in series : c.id = r.id).n} ELSE {}] : r \in rows}

\* table['bond_count'].fillna(value).astype(np.int64)
FillNa(rows, value) ==
    {[r EXCEPT !.bond_count = IF @ = {} THEN {value} ELSE @] : r \in rows}

\* a compute_bond_count that fills with the sentinel of the projected table
compute_bond_count_sentinel(w) ==
    Called("compute_bond_count",
        Then(cbc(w), LAMBDA c :
        Then(GetAtom(c.u), LAMBDA a :
             Ok([a.u EXCEPT !._atom =
                    Table(FillNa(SetColumn(a.ret.rows, c.ret), -1))], None))))

\* def compute_bond_count(self)
compute_bond_count(w) ==
    Called("compute_bond_count",
        Then(cbc(w), LAMBDA c :
        Then(GetAtom(c.u), LAMBDA a :
             Ok([a.u EXCEPT !._atom =
                    Table(FillNa(SetColumn(a.ret.rows, c.ret), 0))], None))))

\* a compute_projected_bond_count that fills with 0
compute_projected_bond_count_zero(w) ==
    Called("compute_projected_bond_count",
        Then(cpbc(w), LAMBDA c :
        Then(projected_atom(c.u), LAMBDA pa :
             Ok([pa.u EXCEPT !._projected_atom =
                    Table(FillNa(SetColumn(pa.ret.rows, c.ret), 0))], None))))

\* def compute_projected_bond_count(self)
compute_projected_bond_count(w) ==
    Called("compute_projected_bond_count",
        Then(cpbc(w), LAMBDA c :
        Then(projected_atom(c.u), LAMBDA pa :
             Ok([pa.u EXCEPT !._projected_atom =
                    Table(FillNa(SetColumn(pa.ret.rows, c.ret), -1))], None))))

\* ------------------------------------------------------------------------
\* The field store: rows are the dimension rows (a sequence: the index is
\* positional), field_values the value arrays

NoField(st) == [st |-> st, rows |-> <<>>, field_values |-> <<>>]

\* a Field: dimension rows and value arrays
Field(rows, values) == [st |-> "set", rows |-> rows, field_values |-> values]

\* field['frame'] = frame
WithFrame(field, frame) ==
    [field EXCEPT !.rows = [i \in 1..Len(field.rows) |->
                               [field.rows[i] EXCEPT !.frame = frame]]]

\* Container._reconstruct_field('field', field, field_values): the Field made
\* of the dimension rows and the value arrays
reconstruct_field(field) == Field(field.rows, field.field_values)

\* a concatenation that puts the new value arrays first
ConcatenatedSwapped(store, df) ==
    Field(store.rows \o df.rows, df.field_values \o store.field_values)

\* the store after concatenation (lines 294-301): the value lists are
\* concatenated, the dimension rows are concatenated and reindexed
Concatenated(store, df) ==
    Field(store.rows \o df.rows, store.field_values \o df.field_values)

\* an append_field that assigns the frame before it checks it
append_field_early(w, field, frame) ==
    LET f == IF frame.isint THEN GetFrame(w) ELSE Ok(w, None)
        arg == IF frame.isint THEN WithFrame(field, frame.val) ELSE field
        df == reconstruct_field(arg)
    IN
    IF Failed(f) THEN [f EXCEPT !.ret = field]
    ELSE IF frame.isint /\ frame.val \notin {fr.frame : fr \in f.ret.rows}
         THEN [f EXCEPT !.exc = "IndexError", !.ret = arg]
    ELSE IF ~Is(f.u, "_field")
         THEN [f EXCEPT !.exc = "AttributeError", !.ret = arg]
    ELSE [f EXCEPT !.u._field = IF f.u._field.st = "none" THEN df
                                ELSE Concatenated(f.u._field, df),
                   !.u._traits_need_update = TRUE,
                   !.ret = arg]

\* def append_field(self, field, frame=None, field_values=None)
\* frame is [isint |-> whether an integer was given, val |-> the integer];
\* ret is the caller's field argument after the call
append_field(w, field, frame) ==
    LET f == IF frame.isint THEN GetFrame(w) ELSE Ok(w, None)
        arg == IF frame.isint THEN WithFrame(field, frame.val) ELSE field
        df == reconstruct_field(arg)
    IN
    IF Failed(f) THEN [f EXCEPT !.ret = field]
    ELSE IF frame.isint /\ frame.val \notin {fr.frame : fr \in f.ret.rows}
         THEN [f EXCEPT !.exc = "IndexError", !.ret = field]
    ELSE IF ~Is(f.u, "_field")
         THEN [f EXCEPT !.exc = "AttributeError", !.ret = arg]
    ELSE [f EXCEPT !.u._field = IF f.u._field.st = "none" THEN df
                                ELSE Concatenated(f.u._field, df),
                   !.u._traits_need_update = TRUE,
                   !.ret = arg]

\* ------------------------------------------------------------------------
\* Unimplemented operations

\* an append_dataframe that returns without doing anything
append_dataframe_silent(w, df) == Ok(w, None)

\* def append_dataframe(self, df)
append_dataframe(w, df) == Raise(w, "NotImplementedError")

\* def slice_by_molecules(self, identifier)
slice_by_molecules(w, identifier) == Raise(w, "NotImplementedError")

\* def _slice_by_mids(self, molecule_indices)
slice_by_mids(w, molecule_indices) == Raise(w, "NotImplementedError")

\* ------------------------------------------------------------------------
\* XYZ texts (atomic.xyz as exercised by tests/test_xyz.py): a text of
\* frames, each a line with the number of atoms, a comment line and one line
\* per atom

\* the decimal numeral of a count and the integer a numeral reads as
Numeral == [d \in 0..9 |-> <<"0", "1", "2", "3", "4", "5", "6", "7", "8", "9">>[d + 1]]

ParseInt(str) == CHOOSE d \in 0..9 : Numeral[d] = str

\* a line split into the four columns _rawdf names: its first token is the
\* symbol column, missing tokens are nan
Line(symbol, x) == [symbol |-> symbol, x |-> x, y |-> x, z |-> x]

\* the lines of one frame of n atoms whose comment starts with the given
\* token
FrameLines(n, comment) ==
    <<Line(Numeral[n], "nan"), Line(comment, "nan")>>
    \o [j \in 1..n |-> Line("H", "0.0")]

\* xyz._rawdf(text): one row per line of the text whose frames have the
\* given numbers of atoms and comments
RECURSIVE rawdf(_, _)
rawdf(sizes, comments) ==
    IF sizes = <<>> THEN <<>>
    ELSE FrameLines(Head(sizes), Head(comments)) \o rawdf(Tail(sizes), Tail(comments))

\* xyz._index(raw): the positions (from 0) of the lines that open a frame,
\* found by reading the count at a position and skipping the frame
RECURSIVE Scan(_, _)
Scan(raw, pos) ==
    IF pos >= Len(raw) THEN <<>>
    ELSE <<pos>> \o Scan(raw, pos + ParseInt(raw[pos + 1].symbol) + 2)

\* an _index that skips the atoms and one line only
index_short(raw) ==
    LET RECURSIVE Short(_)
        Short(pos) ==
            IF pos >= Len(raw) \/ raw[pos + 1].symbol \notin {Numeral[d] : d \in 0..9}
            THEN <<>>
            ELSE <<pos>> \o Short(pos + ParseInt(raw[pos + 1].symbol) + 1)
    IN Short(0)

index(raw) == Scan(raw, 0)

\* xyz._parse_xyz(raw, unit, idx): the atom rows under the two-level index
\* (frame, atom), atoms numbered from 0 within their frame
parse_xyz(raw, idx) ==
    UNION {{[frame |-> k - 1, atom |-> j, symbol |-> raw[idx[k] + 2 + j + 1].symbol] :
               j \in 0..(ParseInt(raw[idx[k] + 1].symbol) - 1)} : k \in 1..Len(idx)}

\* index.levels: the distinct values of each level
Levels(rows) == [frame |-> {r.frame : r \in rows}, atom |-> {r.atom : r \in rows}]

NoXYZ == [stage |-> "none", sizes |-> <<>>, comments |-> <<>>, raw |-> <<>>, idx |-> <<>>, parsed |-> {}]

\* ------------------------------------------------------------------------
\* ADF NMR outputs (exatomic/adf/nmr/output.py). A line of the output is
\* "coords" (holds 'NUCLEAR COORDINATES (ANGSTROMS)'), "coords_cpl" (holds
\* the nuclear coordinates heading of a cpl part: matched by the
\* case-insensitive pattern of parse_atom only), "nucleus" (holds
\* 'N U C L E U S :', standing for the whole block with its shielding
\* tensor) or "text"

\* the numbers of a set in ascending order
RECURSIVE Ascending(_)
Ascending(S) ==
    IF S = {} THEN <<>>
    ELSE LET m == CHOOSE x \in S : \A y \in S : x <= y
         IN <<m>> \o Ascending(S \ {m})

\* self.find / self.regex with keys_only=True: the numbers (from 0) of the
\* lines of the given kinds
Find(lines, kinds) == Ascending({p - 1 : p \in {q \in DOMAIN lines : lines[q] \in kinds}})

\* def parse_atom(self): one atom block per heading, framed by the place of
\* its heading among the headings
parse_atom(lines) ==
    LET found == Find(lines, {"coords", "coords_cpl"})
    IN {[line |-> found[k], frame |-> k - 1] : k \in DOMAIN found}

\* the loop of parse_nmr_shielding (lines 76-94): ncalc[k] of the code is
\* ncalc[k + 1] here
RECURSIVE Shieldings(_, _, _, _)
Shieldings(found, ncalc, ndx, dfs) ==
    IF found = <<>> THEN [exc |-> NoExc, rows |-> dfs]
    ELSE LET start == Head(found) IN
         IF ndx >= Len(ncalc) THEN [exc |-> "IndexError", rows |-> <<>>]
         ELSE IF start > ncalc[ndx + 1] /\ ndx + 1 >= Len(ncalc)
              THEN [exc |-> "IndexError", rows |-> <<>>]
         ELSE LET stay == start > ncalc[ndx + 1] /\ start < ncalc[ndx + 2]
                  next == IF stay THEN ndx ELSE ndx + 1
              IN Shieldings(Tail(found), ncalc, next,
                            Append(dfs, [line |-> start, frame |-> next]))

\* def parse_nmr_shielding(self): the stored table, or nothing stored when
\* the output has no nucleus block or the loop raises
parse_nmr_shielding(lines) ==
    LET found == Find(lines, {"nucleus"})
        ncalc == Find(lines, {"coords"}) \o <<Len(lines)>>
        r == Shieldings(found, ncalc, 0, <<>>)
    IN IF found = <<>> THEN [exc |-> NoExc, table |-> Unset]
       ELSE IF r.exc # NoExc THEN [exc |-> r.exc, table |-> Unset]
       ELSE [exc |-> NoExc, table |-> [st |-> "set", rows |-> r.rows]]

NoNMR == [lines |-> <<>>, atom |-> Unset, nmr_shielding |-> Unset, exc |-> NoExc]

\* ------------------------------------------------------------------------
\* Cubic fields of molecular orbitals (atomic/orbital.py)

\* universe.orbital.ix[vno, 'frame']
OrbitalFrame(vno) == vno % 2

\* the dimension row and value array built for orbital vno
FieldRow(vno) == [label |-> vno, frame |-> OrbitalFrame(vno), value |-> vno]

\* what a slot of np.empty that is never assigned may hold
GarbageRows ==
    {[label |-> l, frame |-> f, value |-> x] : l \in {-1, 0}, f \in {0, 1}, x \in {-1, 0}}

\* lines 90-95: the list of requested orbitals
Requested(orbitals, vector) ==
    CASE vector.kind = "int" -> <<vector.i>>
      [] vector.kind = "none" -> Ascending(orbitals)
      [] vector.kind = "list" -> vector.list
      [] OTHER -> <<>>

\* lines 143-153: the groups in ascending order of orbital; a group whose
\* orbital is requested fills the next slot
RECURSIVE FillSlots(_, _, _, _)
FillSlots(keys, requested, i, rows) ==
    IF keys = <<>> THEN rows
    ELSE IF \E j \in DOMAIN requested : requested[j] = Head(keys)
         THEN FillSlots(Tail(keys), requested, i + 1,
                        [rows EXCEPT ![i + 1] = FieldRow(Head(keys))])
         ELSE FillSlots(Tail(keys), requested, i, rows)

\* def add_cubic_field_from_mo(universe, rmin, rmax, nr, vector=None): the
\* n dimension rows with their value arrays; empty is what the n slots hold
\* before the loop
add_cubic_field_from_mo(orbitals, vector, empty) ==
    IF vector.kind \notin {"int", "none", "list"}
    THEN [exc |-> "TypeError", rows |-> <<>>]
    ELSE LET requested == Requested(orbitals, vector)
         IN [exc |-> NoExc,
             rows |-> FillSlots(Ascending(orbitals), requested, 0,
                                [i \in 1..Len(requested) |-> empty])]

NoMO == [stage |-> "none", orbitals |-> {}, vector |-> [kind |-> "none"],
         exc |-> NoExc, rows |-> <<>>]

\* ------------------------------------------------------------------------
\* Construction and slicing

\* Universe(...) without tables; test mode clears the update flag
Fresh(cv) ==
    [_atom |-> Unset, _frame |-> Unset, _two_free |-> Unset, _two_periodic |-> Unset,
     _unit_atom |-> cv, _projected_atom |-> cv, _molecule |-> cv, _visual_atom |-> cv,
     _field |-> NoField(cv.st), periodic_two |-> Unset,
     _traits_need_update |-> FALSE]

\* Universe(atom=..., frame=...)
WithTables(cv, atom, frame) ==
    [Fresh(cv) EXCEPT !._atom = atom, !._frame = frame, !._traits_need_update = TRUE]

NoUniverse == [st |-> "none", u |-> Fresh(Unset)]

\* the frame ids a key selects; positions count the frame ids in ascending
\* order, a negative integer counts from the end, a slice is [i, j)
Positions(n, key) ==
    CASE key.kind = "int" -> {IF key.i < 0 THEN n + key.i ELSE key.i}
      [] key.kind = "slice" -> key.i..(key.j - 1)
      [] key.kind = "list" -> key.ids

Selected(frows, key) ==
    LET ids == {fr.frame : fr \in frows} IN
    {f \in ids : Cardinality({g \in ids : g < f}) \in Positions(Cardinality(ids), key)}

\* a slicing that restricts the base tables of a copy of the universe
slice_shared(w, sel, cv) ==
    [st |-> "set",
     u |-> [w EXCEPT !._atom = Table({a \in w._atom.rows : a.frame \in sel}),
                     !._frame = Table({fr \in w._frame.rows : fr.frame \in sel})]]

\* universe[key]: a new universe of the rows of the selected frames
slice(w, sel, cv) ==
    [st |-> "set",
     u |-> WithTables(cv, Table({a \in w._atom.rows : a.frame \in sel}),
                          Table({fr \in w._frame.rows : fr.frame \in sel}))]

\* ------------------------------------------------------------------------
\* Inputs

\* the Frame tables a caller supplies for an Atom table
FrameInputs(arows) ==
    {FrameTable(arows, FALSE, "none"), FrameTable(arows, TRUE, "ok"),
     FrameTable(arows, TRUE, "none")}

NoCall == [op |-> "init", args |-> <<>>, exc |-> NoExc, calls |-> <<>>, ret |-> None]

\* the call op(args) ran with result r
Do(op, args, r) ==
    /\ u' = r.u
    /\ last' = [op |-> op, args |-> args, exc |-> r.exc, calls |-> r.calls, ret |-> r.ret]
    /\ UNCHANGED <<v, conv, assigned, xyz, nmr, mo>>

\* the caller assigns a base table
Assign(op, w) ==
    /\ assigned < MaxAssign
    /\ assigned' = assigned + 1
    /\ u' = w
    /\ last' = [NoCall EXCEPT !.op = op]
    /\ UNCHANGED <<v, conv, xyz, nmr, mo>>

\* the field sets a caller appends: one dimension row per label, with the
\* value array built for that label (k: its place in the set); the labels of
\* one field set are distinct
FieldOf(labels) ==
    Field([i \in 1..Len(labels) |-> [label |-> labels[i], frame |-> 0]],
          [i \in 1..Len(labels) |-> [orbital |-> labels[i], k |-> i]])

FieldInputs ==
    {FieldOf(ls) : ls \in {s \in UNION {[1..n -> 0..MaxLabel] : n \in 1..MaxAppend} :
                              \A i, j \in DOMAIN s : i # j => s[i] # s[j]}}

\* frame=None, or an integer (MaxAtoms is the id of no frame)
FrameArgs ==
    {[isint |-> FALSE, val |-> 0]} \cup {[isint |-> TRUE, val |-> f] : f \in 0..MaxAtoms}

\* the keys of universe[key] for a universe of n frames
Keys(n) ==
    {[kind |-> "int", i |-> i] : i \in (0 - n)..(n - 1)}
    \cup {[kind |-> "slice", i |-> ij[1], j |-> ij[2]] :
             ij \in {xy \in (0..n) \X (0..n) : xy[1] <= xy[2]}}
    \cup {[kind |-> "list", ids |-> ids] : ids \in SUBSET (0..(n - 1)) \ {{}}}

\* ------------------------------------------------------------------------
\* Actions: one per operation of the universe

SetAtom == \E a \in AtomInputs : Assign("set_atom", SetAtomAttr(u, a))

SetFrame ==
    /\ u._atom.st = "set"
    /\ \E f \in FrameInputs(u._atom.rows) : Assign("set_frame", SetFrameAttr(u, f))

ComputeFrame == Do("compute_frame", <<>>, compute_frame(u))

ComputeUnitAtom == Do("compute_unit_atom", <<>>, compute_unit_atom(u))

ComputeProjectedAtom == Do("compute_projected_atom", <<>>, compute_projected_atom(u))

ComputeVisualAtom == Do("compute_visual_atom", <<>>, compute_visual_atom(u))

ComputeTwoBody ==
    \E t \in BOOLEAN : Do("compute_two_body", <<t>>, compute_two_body(u, t))

ComputeTwoFree == Do("compute_two_free", <<>>, compute_two_free(u))

ComputeTwoPeriodic == Do("compute_two_periodic", <<>>, compute_two_periodic(u))

ComputeMolecule ==
    \E com \in BOOLEAN : Do("compute_molecule", <<com>>, compute_molecule(u, com))

TruncateProjectedAtom == Do("truncate_projected_atom", <<>>, truncate_projected_atom(u))

AccessUnitAtom == Do("unit_atom", <<>>, unit_atom(u))

AccessVisualAtom == Do("visual_atom", <<>>, visual_atom(u))

AccessProjectedAtom == Do("projected_atom", <<>>, projected_atom(u))

AccessMolecule == Do("molecule", <<>>, molecule(u))

AccessTwo == Do("two", <<>>, two(u))

\* the classifiers a caller passes: (composition, label, exact)
RuleInputs ==
    {<<>>,
     <<[size |-> 1, label |-> "solute", exact |-> TRUE]>>,
     <<[size |-> MaxAtoms, label |-> "solvent", exact |-> FALSE],
       [size |-> 1, label |-> "solute", exact |-> FALSE]>>}

ClassifyMolecules ==
    \E rules \in RuleInputs :
        Do("classify_molecules", <<rules>>, classify_molecules(u, rules))

ComputeBondCount == Do("compute_bond_count", <<>>, compute_bond_count(u))

ComputeProjectedBondCount ==
    Do("compute_projected_bond_count", <<>>, compute_projected_bond_count(u))

AppendDataframe ==
    \E df \in AtomInputs : Do("append_dataframe", <<>>, append_dataframe(u, df))

SliceByMolecules ==
    \E identifier \in 0..1 :
        Do("slice_by_molecules", <<>>, slice_by_molecules(u, identifier))

SliceByMids ==
    \E mids \in SUBSET (0..1) : Do("_slice_by_mids", <<>>, slice_by_mids(u, mids))

AppendField ==
    \E field \in FieldInputs, frame \in FrameArgs :
        /\ Len(u._field.rows) + Len(field.rows) <= MaxStore
        /\ Do("append_field", <<field, frame>>, append_field(u, field, frame))

\* the container redraws: self._update_traits(); self._traits_need_update = False
UpdateTraits ==
    /\ u._traits_need_update
    /\ Do("_update_traits", <<>>, Ok([u EXCEPT !._traits_need_update = FALSE], None))

Slice ==
    /\ u._atom.st = "set" /\ u._frame.st = "set"
    /\ \E key \in Keys(Cardinality(u._frame.rows)) :
          /\ v' = slice(u, Selected(u._frame.rows, key), conv)
          /\ last' = [NoCall EXCEPT !.op = "slice", !.args = <<key>>]
          /\ UNCHANGED <<u, conv, assigned, xyz, nmr, mo>>

\* ------------------------------------------------------------------------
\* The universe after construction: empty, with an Atom table, or with an
\* Atom and a Frame table

Constructed(cv) ==
    {Fresh(cv)}
    \cup {WithTables(cv, Table(a), Unset) : a \in AtomInputs}
    \cup UNION {{WithTables(cv, Table(a), Table(f)) : f \in FrameInputs(a)} : a \in AtomInputs}

Init ==
    /\ conv \in {Unset, None}
    /\ u \in Constructed(conv)
    /\ v = NoUniverse
    /\ last = NoCall
    /\ assigned = 0
    /\ xyz = NoXYZ
    /\ nmr = NoNMR
    /\ mo = NoMO

Next ==
    \/ ComputeFrame
    \/ ComputeUnitAtom
    \/ ComputeProjectedAtom
    \/ ComputeVisualAtom
    \/ ComputeTwoBody
    \/ ComputeTwoFree
    \/ ComputeTwoPeriodic
    \/ ComputeMolecule
    \/ TruncateProjectedAtom
    \/ AccessUnitAtom
    \/ AccessVisualAtom
    \/ AccessProjectedAtom
    \/ AccessMolecule
    \/ AccessTwo
    \/ AppendDataframe
    \/ SliceByMolecules
    \/ SliceByMids

\* every operation, on the tables the universe was constructed with
Spec == Init /\ [][Next]_vars

\* the caller reassigns base tables between computations
NextAssign ==
    \/ SetAtom
    \/ SetFrame
    \/ ComputeFrame
    \/ ComputeUnitAtom
    \/ ComputeProjectedAtom
    \/ ComputeTwoBody
    \/ ComputeMolecule
    \/ AccessProjectedAtom

SpecAssign == Init /\ [][NextAssign]_vars

\* the projected supercell and the pair tables computed from it
NextProjected ==
    \/ ComputeProjectedAtom
    \/ ComputeTwoBody
    \/ TruncateProjectedAtom
    \/ AccessProjectedAtom

SpecProjected == Init /\ [][NextProjected]_vars

\* pair tables recomputed after the atoms were replaced
NextTruncate ==
    \/ SetAtom
    \/ ComputeTwoBody
    \/ ComputeTwoFree
    \/ ComputeTwoPeriodic

SpecTruncate == Init /\ [][NextTruncate]_vars

\* the merged views of the Atom table
NextView ==
    \/ ComputeUnitAtom
    \/ ComputeVisualAtom
    \/ AccessUnitAtom
    \/ AccessVisualAtom

SpecView == Init /\ [][NextView]_vars

\* molecules and their classification
NextMolecule ==
    \/ ComputeTwoBody
    \/ ComputeProjectedAtom
    \/ ComputeMolecule
    \/ AccessMolecule
    \/ ClassifyMolecules

SpecMolecule == Init /\ [][NextMolecule]_vars

\* bond counts
NextBond ==
    \/ ComputeTwoBody
    \/ ComputeProjectedAtom
    \/ ComputeBondCount
    \/ ComputeProjectedBondCount

SpecBond == Init /\ [][NextBond]_vars

\* the compute methods
NextCompute ==
    \/ ComputeFrame
    \/ ComputeUnitAtom
    \/ ComputeProjectedAtom
    \/ ComputeVisualAtom
    \/ ComputeTwoBody
    \/ ComputeTwoFree
    \/ ComputeTwoPeriodic
    \/ ComputeMolecule
    \/ ComputeBondCount
    \/ ComputeProjectedBondCount

SpecCompute == Init /\ [][NextCompute]_vars

\* reading an XYZ text: the text, its raw rows, its index, its atom rows
SizeInputs == UNION {[1..f -> 1..MaxXyzAtoms] : f \in 1..MaxXyzFrames}

\* the first token of a comment line: a number or a word
CommentInputs(f) == [1..f -> {"1", "comments"}]

RawDf ==
    /\ xyz.stage = "text"
    /\ xyz' = [xyz EXCEPT !.stage = "raw", !.raw = rawdf(xyz.sizes, xyz.comments)]
    /\ UNCHANGED <<u, v, last, conv, assigned, nmr, mo>>

Index ==
    /\ xyz.stage = "raw"
    /\ xyz' = [xyz EXCEPT !.stage = "index", !.idx = index(xyz.raw)]
    /\ UNCHANGED <<u, v, last, conv, assigned, nmr, mo>>

ParseXyz ==
    /\ xyz.stage = "index"
    /\ xyz' = [xyz EXCEPT !.stage = "parsed", !.parsed = parse_xyz(xyz.raw, xyz.idx)]
    /\ UNCHANGED <<u, v, last, conv, assigned, nmr, mo>>

InitXYZ ==
    /\ conv = Unset
    /\ u = Fresh(conv)
    /\ v = NoUniverse
    /\ last = NoCall
    /\ assigned = 0
    /\ nmr = NoNMR
    /\ mo = NoMO
    /\ \E sz \in SizeInputs : \E cs \in CommentInputs(Len(sz)) :
          xyz = [NoXYZ EXCEPT !.stage = "text", !.sizes = sz, !.comments = cs]

NextXYZ ==
    \/ RawDf
    \/ Index
    \/ ParseXyz

SpecXYZ == InitXYZ /\ [][NextXYZ]_vars

\* parsing an ADF NMR output whose first line opens a calculation
LineInputs ==
    UNION {{<<"coords">> \o t : t \in [1..n -> {"coords", "coords_cpl", "nucleus", "text"}]} :
              n \in 0..(MaxLines - 1)}

ParseAtom ==
    /\ nmr.atom.st = "unset"
    /\ nmr' = [nmr EXCEPT !.atom = [st |-> "set", rows |-> parse_atom(nmr.lines)]]
    /\ UNCHANGED <<u, v, last, conv, assigned, xyz, mo>>

ParseNmrShielding ==
    /\ nmr.nmr_shielding.st = "unset"
    /\ nmr.exc = NoExc
    /\ LET r == parse_nmr_shielding(nmr.lines)
       IN nmr' = [nmr EXCEPT !.nmr_shielding = r.table, !.exc = r.exc]
    /\ UNCHANGED <<u, v, last, conv, assigned, xyz, mo>>

InitNMR ==
    /\ conv = Unset
    /\ u = Fresh(conv)
    /\ v = NoUniverse
    /\ last = NoCall
    /\ assigned = 0
    /\ xyz = NoXYZ
    /\ mo = NoMO
    /\ \E ls \in LineInputs : nmr = [NoNMR EXCEPT !.lines = ls]

NextNMR ==
    \/ ParseAtom
    \/ ParseNmrShielding

SpecNMR == InitNMR /\ [][NextNMR]_vars

\* cubic fields of the orbitals of a universe
OrbitalInputs == (SUBSET (0..(MaxOrbital - 1))) \ {{}}

VectorInputs ==
    {[kind |-> "none"], [kind |-> "str"]}
    \cup {[kind |-> "int", i |-> i] : i \in 0..MaxOrbital}
    \cup {[kind |-> "list", list |-> l] :
             l \in UNION {[1..n -> 0..MaxOrbital] : n \in 0..MaxVector}}

AddCubicFieldFromMo ==
    /\ mo.stage = "call"
    /\ \E empty \in GarbageRows :
          LET r == add_cubic_field_from_mo(mo.orbitals, mo.vector, empty)
          IN mo' = [mo EXCEPT !.stage = "done", !.exc = r.exc, !.rows = r.rows]
    /\ UNCHANGED <<u, v, last, conv, assigned, xyz, nmr>>

InitMO ==
    /\ conv = Unset
    /\ u = Fresh(conv)
    /\ v = NoUniverse
    /\ last = NoCall
    /\ assigned = 0
    /\ xyz = NoXYZ
    /\ nmr = NoNMR
    /\ \E o \in OrbitalInputs : \E vec \in VectorInputs :
          mo = [NoMO EXCEPT !.stage = "call", !.orbitals = o, !.vector = vec]

NextMO == AddCubicFieldFromMo

SpecMO == InitMO /\ [][NextMO]_vars

\* the field store
NextField ==
    \/ AppendField
    \/ UpdateTraits
    \/ ComputeFrame

\* an empty universe, or one atom per frame with or without a Frame table
InitField ==
    /\ conv \in {Unset, None}
    /\ \E a \in {AtomTable(MaxAtoms, 1, g) : g \in Geometry} :
          u \in {Fresh(conv), WithTables(conv, Table(a), Unset),
                 WithTables(conv, Table(a), Table(minimal_frame(a)))}
    /\ v = NoUniverse
    /\ last = NoCall
    /\ assigned = 0
    /\ xyz = NoXYZ
    /\ nmr = NoNMR
    /\ mo = NoMO

SpecField == InitField /\ [][NextField]_vars

\* slicing a universe some of whose derived tables are present
NextSlice ==
    \/ ComputeUnitAtom
    \/ ComputeProjectedAtom
    \/ ComputeTwoBody
    \/ ComputeMolecule
    \/ Slice

SpecSlice == Init /\ [][NextSlice]_vars

\* ------------------------------------------------------------------------
\* Properties

\* the attributes that hold derived tables
Derived ==
    {"_unit_atom", "_projected_atom", "_two_free", "_two_periodic",
     "_molecule", "_visual_atom"}

\* a table is absent when its attribute holds no table
Absent(w, x) == w[x].st # "set"

\* the universe has a Frame table with a periodic frame
Periodic(w) == w._frame.st = "set" /\ FrameIsPeriodic(w._frame.rows)

\* the universe has an Atom table, and cell vectors for its periodic frames
Computable(w) ==
    /\ w._atom.st = "set"
    /\ w._frame.st = "set" => ~BadCell(w._frame.rows)

\* how many times the method was entered
Count(calls, name) == Cardinality({i \in DOMAIN calls : calls[i] = name})

\* the lazy accessors, the attribute each caches in and its compute method;
\* stored: the accessor returns the cached table itself
LazyAccessors ==
    {[op |-> "unit_atom", cache |-> "_unit_atom",
      compute |-> "compute_unit_atom", stored |-> FALSE],
     [op |-> "projected_atom", cache |-> "_projected_atom",
      compute |-> "compute_projected_atom", stored |-> TRUE],
     [op |-> "molecule", cache |-> "_molecule",
      compute |-> "compute_molecule", stored |-> TRUE],
     [op |-> "visual_atom", cache |-> "_visual_atom",
      compute |-> "compute_visual_atom", stored |-> FALSE]}

\* C1: on a universe with an Atom table and usable cells, an access of
\* unit_atom, projected_atom, molecule, or of visual_atom on a periodic
\* universe, while the table is absent enters the corresponding compute_X
\* exactly once and, when it returns, returns the stored table; an access
\* while the table is present enters no method, returns normally and leaves
\* the universe as it is.
C1_LazyAccess ==
    [][\A x \in LazyAccessors :
          (/\ last'.op = x.op
           /\ Computable(u)
           /\ x.op = "visual_atom" => Periodic(u)) =>
              /\ IF Absent(u, x.cache)
                 THEN Count(last'.calls, x.compute) = 1
                 ELSE last'.calls = <<>> /\ last'.exc = NoExc /\ u' = u
              /\ (x.stored /\ last'.exc = NoExc) => last'.ret = u'[x.cache]]_vars

\* C2: after a reassignment of Atom or Frame (by the caller or by
\* compute_frame) every derived table is absent.
C2_Invalidation ==
    [][(\/ last'.op \in {"set_atom", "set_frame"}
        \/ last'.op = "compute_frame" /\ last'.exc = NoExc)
       => \A x \in Derived : Absent(u', x)]_vars

\* the compute methods and the tables each one stores
ComputeOps ==
    {[op |-> "compute_unit_atom", cache |-> {"_unit_atom"}],
     [op |-> "compute_projected_atom", cache |-> {"_projected_atom"}],
     [op |-> "compute_visual_atom", cache |-> {"_visual_atom"}],
     [op |-> "compute_molecule", cache |-> {"_molecule"}],
     [op |-> "compute_two_body", cache |-> {"_two_free", "_two_periodic"}],
     [op |-> "compute_two_free", cache |-> {"_two_free", "_two_periodic"}],
     [op |-> "compute_two_periodic", cache |-> {"_two_free", "_two_periodic"}]}

\* C3: when a compute_X call raises, table X is absent afterwards (no prior
\* value is retained and no part of the call's updates is applied).
C3_FailedCompute ==
    [][\A x \in ComputeOps :
          (last'.op = x.op /\ last'.exc # NoExc) =>
              \A c \in x.cache : Absent(u', c)]_vars

\* the frame ids a key names: position counts the ids in ascending order
Chosen(ids, key) ==
    LET n == Cardinality(ids)
        pos(f) == Cardinality({g \in ids : g < f})
    IN
    CASE key.kind = "int" ->
             {f \in ids : pos(f) = IF key.i < 0 THEN n + key.i ELSE key.i}
      [] key.kind = "slice" -> {f \in ids : key.i <= pos(f) /\ pos(f) < key.j}
      [] key.kind = "list" -> {f \in ids : pos(f) \in key.ids}

\* C4: universe[key] is a new universe whose Atom and Frame tables hold
\* exactly the rows of the selected frames and whose derived tables are all
\* absent, and the universe sliced is unchanged.
C4_Slice ==
    [][last'.op = "slice" =>
          LET sel == Chosen({fr.frame : fr \in u._frame.rows}, last'.args[1]) IN
          /\ v'.st = "set"
          /\ v'.u._atom = Table({a \in u._atom.rows : a.frame \in sel})
          /\ v'.u._frame = Table({fr \in u._frame.rows : fr.frame \in sel})
          /\ \A x \in Derived : Absent(v'.u, x)
          /\ u' = u]_vars

\* a universe with derived tables was sliced to some but not all of its frames
C4_Witness ==
    /\ last.op = "slice"
    /\ ~Absent(u, "_unit_atom") /\ ~Absent(u, "_molecule")
    /\ v.u._atom.rows # {}
    /\ v.u._atom.rows # u._atom.rows

PeriodicAtoms(w) ==
    {a \in w._atom.rows :
        \E fr \in w._frame.rows : fr.frame = a.frame /\ fr.periodic}

\* ProjectedAtom holds, for every atom of a periodic frame, exactly one row
\* per translation, and no other row
Complete(w) ==
    /\ ~Absent(w, "_projected_atom")
    /\ \A a \in PeriodicAtoms(w) :
          LET images == {p \in w._projected_atom.rows : p.atom = a.id} IN
          /\ Cardinality(images) = NImages
          /\ {p.image : p \in images} = 0..(NImages - 1)
          /\ \E p \in images : p.image = IdentityImage
    /\ \A p \in w._projected_atom.rows :
          \E a \in PeriodicAtoms(w) : a.id = p.atom

C7_Additive ==
    [][(last'.op = "append_field" /\ last'.exc = NoExc) =>
          LET old == u._field
              new == u'._field
              n == Len(old.rows)
              m == Len(last'.args[1].rows)
          IN
          /\ Len(new.rows) = n + m
          /\ Len(new.field_values) = n + m
          /\ \A i \in 1..n : /\ new.rows[i] = old.rows[i]
                             /\ new.field_values[i] = old.field_values[i]
          /\ \A i \in 1..m : /\ new.rows[n + i] = last'.ret.rows[i]
                             /\ new.field_values[n + i] = last'.args[1].field_values[i]
          /\ \A i \in 1..(n + m) : new.field_values[i].orbital = new.rows[i].label]_vars

\* two field sets were appended, the second of more than one row
C7_Witness ==
    /\ last.op = "append_field" /\ last.exc = NoExc
    /\ Len(last.args[1].rows) > 1
    /\ Len(u._field.rows) > Len(last.args[1].rows)

\* C8: on a universe whose Frame table is stored or computable, append_field
\* with an integer frame that is no index of the Frame table raises IndexError
\* and leaves the field store, its value arrays, the update flag and the
\* caller's field as they were; with a frame that is an index, every
\* appended row carries that frame.
C8_FrameCheck ==
    [][(/\ last'.op = "append_field"
        /\ last'.args[2].isint
        /\ (~Absent(u, "_frame") \/ ~Absent(u, "_atom"))) =>
          LET field == last'.args[1]
              frame == last'.args[2].val
              n == Len(u._field.rows)
          IN
          IF frame \notin {fr.frame : fr \in u'._frame.rows}
          THEN /\ last'.exc = "IndexError"
               /\ u'._field = u._field
               /\ u'._traits_need_update = u._traits_need_update
               /\ last'.ret = field
          ELSE last'.exc = NoExc =>
                  /\ Len(u'._field.rows) = n + Len(field.rows)
                  /\ \A i \in 1..Len(field.rows) :
                        u'._field.rows[n + i].frame = frame]_vars

\* an append to a non-empty, drawn store was refused for its frame
C8_Witness ==
    /\ last.op = "append_field" /\ last.exc = "IndexError"
    /\ Len(u._field.rows) > 0
    /\ ~u._traits_need_update

\* C9: no two dimension rows of the field store carry the same label.
C9_UniqueLabels ==
    \A i, j \in DOMAIN u._field.rows :
        i # j => u._field.rows[i].label # u._field.rows[j].label

\* the operations that are not implemented
Stubs == {"append_dataframe", "slice_by_molecules", "_slice_by_mids"}

\* C10: append_dataframe, slice_by_molecules and _slice_by_mids raise
\* NotImplementedError whatever the argument and the state, and leave the
\* universe as it is.
C10_Unimplemented ==
    [][last'.op \in Stubs =>
          (last'.exc = "NotImplementedError" /\ u' = u)]_vars

\* an unimplemented operation was called on a universe with derived tables
C10_Witness ==
    /\ last.op = "append_dataframe"
    /\ last.exc = "NotImplementedError"
    /\ \E x \in Derived : ~Absent(u, x)

\* C11: on a universe with an Atom table and usable cells, classify_molecules
\* returns normally with the Molecule table present; when the table was
\* absent compute_molecule is entered exactly once before the rules are
\* applied, and when it was present compute_molecule is not entered and the
\* cached rows are the ones classified.
C11_Classify ==
    [][(last'.op = "classify_molecules" /\ Computable(u)) =>
          /\ last'.exc = NoExc
          /\ ~Absent(u', "_molecule")
          /\ IF Absent(u, "_molecule")
             THEN Count(last'.calls, "compute_molecule") = 1
             ELSE /\ Count(last'.calls, "compute_molecule") = 0
                  /\ u'._molecule.rows = classify(u._molecule.rows, last'.args[1])]_vars

\* the compute methods of the universe
ComputeNames ==
    {x.op : x \in ComputeOps}
    \cup {"compute_frame", "compute_bond_count", "compute_projected_bond_count"}

\* C12: a compute method called a second time in succession, with the same
\* arguments, leaves the universe as the first call left it.
C12_Idempotent ==
    [][(/\ last'.op \in ComputeNames
        /\ last'.op = last.op
        /\ last'.args = last.args) => u' = u]_vars

\* C13: after a compute_frame that returns, Frame has exactly one row per
\* frame id occurring in Atom, the row's atom_count is the number of Atom
\* rows of that frame, and no row is periodic; every frame id of an Atom row
\* is the id of a Frame row.
C13_MinimalFrame ==
    [][(last'.op = "compute_frame" /\ last'.exc = NoExc) =>
          LET arows == u'._atom.rows
              frows == u'._frame.rows
          IN
          /\ ~Absent(u', "_frame")
          /\ {fr.frame : fr \in frows} = {a.frame : a \in arows}
          /\ Cardinality(frows) = Cardinality({a.frame : a \in arows})
          /\ \A fr \in frows :
                /\ fr.atom_count = Cardinality({a \in arows : a.frame = fr.frame})
                /\ ~fr.periodic
          /\ \A a \in arows : \E fr \in frows : fr.frame = a.frame]_vars

\* compute_frame replaced a periodic Frame of a universe of several atoms
C13_Witness ==
    /\ last.op = "compute_frame" /\ last.exc = NoExc
    /\ Cardinality(u._atom.rows) > 1
    /\ ~Absent(u, "_projected_atom") /\ u._projected_atom.rows # {}

\* the bonded pairs of the table the two accessor reads that reference atom
\* a, an image referring to its source atom
BondsOf(w, a) ==
    IF Periodic(w)
    THEN {t \in w._two_periodic.rows :
             t.bond /\ a \in {t.prjd_atom0 \div NImages, t.prjd_atom1 \div NImages}}
    ELSE {t \in w._two_free.rows : t.bond /\ a \in {t.atom0, t.atom1}}

\* C14: after a compute_bond_count that returns, every Atom row has exactly
\* one bond_count, a non-negative integer equal to the number of bonded rows
\* of Two/PeriodicTwo that reference the atom (0 for the atoms no bond
\* references); the other columns of Atom are as before.
C14_BondCount ==
    [][(last'.op = "compute_bond_count" /\ last'.exc = NoExc) =>
          /\ \A a \in u'._atom.rows :
                /\ a.bond_count = {Cardinality(BondsOf(u', a.id))}
                /\ \A n \in a.bond_count : n >= 0
                /\ (a.bond_count = {0}) <=> (BondsOf(u', a.id) = {})
          /\ {[a EXCEPT !.bond_count = {}] : a \in u'._atom.rows}
                = {[a EXCEPT !.bond_count = {}] : a \in u._atom.rows}]_vars

\* bond counts were computed on a periodic universe with a bond to an image
C14_Witness ==
    /\ last.op = "compute_bond_count" /\ last.exc = NoExc
    /\ Periodic(u)
    /\ \E a \in u._atom.rows : a.bond_count = {1}

\* the bonded pairs of PeriodicTwo that reference the projected row i
ProjectedBondsOf(w, i) ==
    {t \in w._two_periodic.rows : t.bond /\ i \in {t.prjd_atom0, t.prjd_atom1}}

\* C15: after a compute_projected_bond_count that returns, every row of
\* ProjectedAtom has exactly one bond_count: -1 for exactly the rows no
\* bonded pair references, and the number of bonded pairs referencing the
\* row, at least 1, otherwise; no row is added or removed.
C15_ProjectedBondCount ==
    [][(last'.op = "compute_projected_bond_count" /\ last'.exc = NoExc) =>
          /\ ~Absent(u', "_projected_atom")
          /\ \A p \in u'._projected_atom.rows :
                IF ProjectedBondsOf(u', p.id) = {}
                THEN p.bond_count = {-1}
                ELSE /\ p.bond_count = {Cardinality(ProjectedBondsOf(u', p.id))}
                     /\ \A n \in p.bond_count : n >= 0
          /\ ~Absent(u, "_projected_atom") =>
                {[p EXCEPT !.bond_count = {}] : p \in u'._projected_atom.rows}
                   = {[p EXCEPT !.bond_count = {}] : p \in u._projected_atom.rows}]_vars

\* projected bond counts were computed with counted and uncounted rows
C15_Witness ==
    /\ last.op = "compute_projected_bond_count" /\ last.exc = NoExc
    /\ \E p \in u._projected_atom.rows : p.bond_count = {1}
    /\ \E p \in u._projected_atom.rows : p.bond_count = {-1}

\* the pairs of source atoms joined by a bonded row of the table the two
\* accessor reads
BondGraph(w) ==
    IF Periodic(w)
    THEN {{t.prjd_atom0 \div NImages, t.prjd_atom1 \div NImages} :
             t \in {x \in w._two_periodic.rows : x.bond}}
    ELSE {{t.atom0, t.atom1} : t \in {x \in w._two_free.rows : x.bond}}

\* a path of bonded pairs leads from a to b through atoms of ids
Connected(a, b, ids, E) ==
    \E n \in 1..Cardinality(ids) :
        \E path \in [1..n -> ids] :
            /\ path[1] = a /\ path[n] = b
            /\ \A i \in 1..(n - 1) : {path[i], path[i + 1]} \in E

C17_MissingAtom ==
    [][(last'.op = "compute_two_body" /\ Absent(u, "_atom")) =>
          /\ last'.exc = "MissingDataError"
          /\ u'._two_free = u._two_free
          /\ u'._two_periodic = u._two_periodic
          /\ u'._projected_atom = u._projected_atom]_vars

\* the largest number of a non-empty sequence of numbers
MaxOf(seq) == CHOOSE n \in {seq[i] : i \in DOMAIN seq} : \A i \in DOMAIN seq : seq[i] <= n

\* C18: the raw rows of a text hold, for every frame of n atoms, n + 2 rows;
\* the positions _index returns are 0 and then the previous position plus
\* the previous frame's n + 2, one per frame; and the index of the parsed
\* atom rows has the frame level 0..F-1 and the atom level 0..N-1, N the
\* largest number of atoms of a frame.
C18_XyzIndex ==
    LET F == Len(xyz.sizes) IN
    /\ xyz.stage \in {"index", "parsed"} =>
          /\ Len(xyz.idx) = F
          /\ xyz.idx[1] = 0
          /\ \A k \in 2..F : xyz.idx[k] = xyz.idx[k - 1] + xyz.sizes[k - 1] + 2
          /\ Len(xyz.raw) = xyz.idx[F] + xyz.sizes[F] + 2
    /\ xyz.stage = "parsed" =>
          /\ Levels(xyz.parsed).frame = 0..(F - 1)
          /\ Levels(xyz.parsed).atom = 0..(MaxOf(xyz.sizes) - 1)
          /\ \A k \in 1..F :
                Cardinality({r \in xyz.parsed : r.frame = k - 1}) = xyz.sizes[k]

\* the text of the test (3 atoms, then 2) was parsed: 9 raw rows, index
\* 0 and 5, levels 0..1 and 0..2
C18_Witness ==
    /\ xyz.stage = "parsed"
    /\ xyz.sizes = <<3, 2>>
    /\ xyz.comments = <<"1", "comments">>
    /\ Len(xyz.raw) = 9
    /\ \A i \in 1..9 : Cardinality(DOMAIN xyz.raw[i]) = 4
    /\ xyz.idx = <<0, 5>>
    /\ Levels(xyz.parsed) = [frame |-> {0, 1}, atom |-> {0, 1, 2}]

\* C19: truncate_projected_atom, on a universe that holds PeriodicTwo and
\* ProjectedAtom, returns normally and replaces ProjectedAtom by exactly
\* those of its rows whose index occurs in prjd_atom0 or prjd_atom1 of
\* PeriodicTwo; PeriodicTwo, Atom and Frame are left as they were.
C19_Truncate ==
    [][(/\ last'.op = "truncate_projected_atom"
        /\ ~Absent(u, "_two_periodic")
        /\ ~Absent(u, "_projected_atom")) =>
          /\ last'.exc = NoExc
          /\ ~Absent(u', "_projected_atom")
          /\ u'._projected_atom.rows =
                {p \in u._projected_atom.rows :
                    p.id \in Referenced(u._two_periodic.rows)}
          /\ u'._two_periodic = u._two_periodic
          /\ u'._atom = u._atom
          /\ u'._frame = u._frame]_vars

\* the calls that compute the two-body table
TwoBodyOps == {"compute_two_body", "compute_two_free", "compute_two_periodic"}

\* the call of this step stored a two-body table: it returned normally, or
\* it went on to the truncation that follows the store
Stored(l) ==
    /\ l.op \in TwoBodyOps
    /\ l.exc = NoExc \/ Count(l.calls, "truncate_projected_atom") > 0

\* C20: a two-body computation stores the engine's table where `two` reads
\* it: on a periodic universe as two_periodic, two_free untouched; otherwise
\* as two_free, two_periodic untouched; `two` then returns that table without
\* computing anything. compute_two_free and compute_two_periodic do what
\* compute_two_body with its default arguments does.
C20_TwoTable ==
    [][/\ Stored(last') =>
             /\ Periodic(u') =>
                   /\ u'._two_periodic = ctb(u).ret
                   /\ u'._two_periodic.st = "set"
                   /\ u'._two_free = u._two_free
             /\ ~Periodic(u') =>
                   /\ u'._two_free = ctb(u).ret
                   /\ u'._two_free.st = "set"
                   /\ u'._two_periodic = u._two_periodic
             /\ two(u').exc = NoExc
             /\ two(u').calls = <<>>
             /\ two(u').u = u'
             /\ two(u').ret = ctb(u).ret
       /\ last'.op \in {"compute_two_free", "compute_two_periodic"} =>
             /\ u' = compute_two_body(u, TRUE).u
             /\ last'.exc = compute_two_body(u, TRUE).exc
             /\ last'.calls = <<last'.op>> \o compute_two_body(u, TRUE).calls]_vars

\* compute_two_body returned on a periodic universe and stored pairs
C20_Witness ==
    /\ last.op = "compute_two_body"
    /\ last.exc = NoExc
    /\ Periodic(u)
    /\ u._two_periodic.st = "set"
    /\ u._two_periodic.rows # {}
    /\ Absent(u, "_two_free")

\* the call of this step entered truncate_projected_atom
Truncating(l) == Count(l.calls, "truncate_projected_atom") > 0

\* the truncate_projected argument of a two-body call (the aliases pass the
\* default)
TruncateArg(l) == IF l.op = "compute_two_body" THEN l.args[1] ELSE TRUE

WithoutCom(mrows) == {[m EXCEPT !.com = FALSE] : m \in mrows}

\* C22: compute_molecule(com=True) stores the Molecule table, then runs
\* compute_visual_atom, then replaces Molecule by the same rows with the
\* centre of mass columns: when it returns, Molecule and VisualAtom are
\* present, VisualAtom is the table computed after the store, every row has
\* its centre of mass and the rows and memberships are those of
\* compute_molecule(com=False). compute_molecule(com=False) leaves VisualAtom
\* as it was.
C22_MoleculeCom ==
    [][last'.op = "compute_molecule" =>
          LET plain == compute_molecule(u, FALSE) IN
          /\ (last'.args[1] /\ last'.exc = NoExc) =>
                /\ ~Absent(u', "_molecule")
                /\ ~Absent(u', "_visual_atom")
                /\ plain.exc = NoExc
                /\ WithoutCom(u'._molecule.rows) = plain.u._molecule.rows
                /\ \A m \in u'._molecule.rows : m.com
                /\ u'._visual_atom = compute_visual_atom(plain.u).u._visual_atom
                /\ Count(last'.calls, "compute_visual_atom") >= 1
          /\ ~last'.args[1] => u'._visual_atom = u._visual_atom]_vars

\* compute_molecule(com=True) returned with a molecule of two atoms
C22_Witness ==
    /\ last.op = "compute_molecule"
    /\ last.args = <<TRUE>>
    /\ last.exc = NoExc
    /\ ~Absent(u, "_visual_atom")
    /\ \E m \in u._molecule.rows : m.com /\ Cardinality(m.atoms) = 2

\* C23: an access of unit_atom leaves the stored Atom table as it was and a
\* present overlay as it was; the table it returns has one row per Atom row,
\* with the overlay's position where the overlay has a row for the atom and
\* equal to the Atom row otherwise.
C23_UnitAtomView ==
    [][last'.op = "unit_atom" =>
          /\ u'._atom = u._atom
          /\ ~Absent(u, "_unit_atom") => u'._unit_atom = u._unit_atom
          /\ last'.exc = NoExc =>
                /\ last'.ret.st = "set"
                /\ Cardinality(last'.ret.rows) = Cardinality(u._atom.rows)
                /\ \A a \in u._atom.rows :
                      \E r \in last'.ret.rows :
                         /\ r.id = a.id
                         /\ [r EXCEPT !.cell = a.cell] = a
                         /\ \A o \in u'._unit_atom.rows : o.id = a.id => r.cell = o.cell
                         /\ (\A o \in u'._unit_atom.rows : o.id # a.id) => r = a]_vars

\* an access returned a row moved into the primary cell while the stored
\* Atom row still lies outside it
C23_Witness ==
    /\ last.op = "unit_atom"
    /\ last.exc = NoExc
    /\ u._unit_atom.rows # {}
    /\ \E a \in u._atom.rows : \E r \in last.ret.rows :
          r.id = a.id /\ a.cell # 0 /\ r.cell = 0

\* C24: an access of visual_atom leaves the stored Atom table as it was. On
\* a non-periodic universe it enters no compute_visual_atom, leaves the
\* VisualAtom attribute as it was and returns the Atom table. On a periodic
\* universe it enters compute_visual_atom only when VisualAtom is absent
\* (once, when the attribute holds None and the tables are usable), leaves a
\* present VisualAtom as it was, and returns the Atom rows overridden by the
\* stored VisualAtom.
C24_VisualAtomView ==
    [][last'.op = "visual_atom" =>
          /\ u'._atom = u._atom
          /\ ~Periodic(u') =>
                /\ Count(last'.calls, "compute_visual_atom") = 0
                /\ u'._visual_atom = u._visual_atom
                /\ last'.exc = NoExc => last'.ret = u._atom
          /\ Periodic(u') =>
                /\ Count(last'.calls, "compute_visual_atom") > 0 =>
                      Absent(u, "_visual_atom")
                /\ ~Absent(u, "_visual_atom") =>
                      last'.calls = <<>> /\ last'.exc = NoExc /\ u' = u
                /\ (Computable(u) /\ u._visual_atom.st = "none") =>
                      /\ Count(last'.calls, "compute_visual_atom") = 1
                      /\ last'.exc = NoExc
                /\ last'.exc = NoExc =>
                      /\ ~Absent(u', "_visual_atom")
                      /\ last'.ret.rows =
                            Update(u._atom.rows, u'._visual_atom.rows)]_vars

\* an access on a periodic universe computed VisualAtom and returned an
\* unwrapped row while the stored Atom row is as it was
C24_Witness ==
    /\ last.op = "visual_atom"
    /\ last.exc = NoExc
    /\ Periodic(u)
    /\ Count(last.calls, "compute_visual_atom") = 1
    /\ \E a \in u._atom.rows : \E r \in last.ret.rows :
          r.id = a.id /\ a.cell # 0 /\ r.cell = 0

\* the numbers of the lines that open a calculation
Markers(lines) == {p - 1 : p \in {q \in DOMAIN lines : lines[q] = "coords"}}

\* C25: parse_nmr_shielding returns with one shielding row per nucleus
\* line, in file order; the frame of a row is the zero-based place of the
\* last 'NUCLEAR COORDINATES (ANGSTROMS)' line before the nucleus line; the
\* frames do not decrease; and every frame is one parse_atom gives to an
\* atom block.
C25_ShieldingFrame ==
    LET nuclei == Find(nmr.lines, {"nucleus"})
        rows == nmr.nmr_shielding.rows
    IN (nmr.nmr_shielding.st = "set" \/ nmr.exc # NoExc) =>
          /\ nmr.exc = NoExc
          /\ Len(rows) = Len(nuclei)
          /\ \A i \in DOMAIN rows :
                /\ rows[i].line = nuclei[i]
                /\ rows[i].frame =
                      Cardinality({m \in Markers(nmr.lines) : m < rows[i].line}) - 1
                /\ rows[i].frame \in {b.frame : b \in parse_atom(nmr.lines)}
          /\ \A i, j \in DOMAIN rows : i <= j => rows[i].frame <= rows[j].frame

\* the orbitals a call asks for
Asked == {Requested(mo.orbitals, mo.vector)[j] :
             j \in DOMAIN Requested(mo.orbitals, mo.vector)}

\* C26: add_cubic_field_from_mo raises TypeError for a vector that is not
\* None, an int or a list; otherwise it returns one dimension row with its
\* value array per requested vector, and every row carries the label of a
\* requested orbital, that orbital's frame and the values built from that
\* orbital's coefficients.
C26_CubicField ==
    mo.stage = "done" =>
       IF mo.vector.kind \notin {"none", "int", "list"}
       THEN mo.exc = "TypeError"
       ELSE /\ mo.exc = NoExc
            /\ Len(mo.rows) = Len(Requested(mo.orbitals, mo.vector))
            /\ \A i \in DOMAIN mo.rows :
                  /\ mo.rows[i].label \in Asked
                  /\ mo.rows[i].frame = OrbitalFrame(mo.rows[i].label)
                  /\ mo.rows[i].value = mo.rows[i].label

====
